---- MODULE Spec2Model ----
(***************************************************************************)
(* The probe engine of matroschka-prober: the transit registry             *)
(* (pkg/prober/transit_probes.go), the receiver loop                       *)
(* (pkg/prober/receiver.go) and, from the design document, the sender,     *)
(* the timeout reaper and the measurement aggregator that call them.       *)
(***************************************************************************)
EXTENDS Integers, Sequences, FiniteSets, TLC

(***************************************************************************)
(* Bounds of the model.                                                    *)
(***************************************************************************)
\* Sequence numbers 0..MaxSeq-1 are allocated by the sender; MaxSeq itself is
\* never registered (a spoofed reply may carry it).
MaxSeq == 1
\* The clock runs from 0 to MaxTicks * TickNS.
MaxTicks == 3
\* Datagrams the receiver reads in one run.
MaxDatagrams == 2

(***************************************************************************)
(* Program constants.                                                      *)
(***************************************************************************)
\* msToNS: s * 1000000
NSPerMS == 1000000
\* uint64 / int64: eight bytes
WordLen == 8
\* the wire header: an 8-byte sequence number and an 8-byte timestamp
HeaderLen == 16

\* The clock advances in steps of one millisecond.
TickNS == NSPerMS

(***************************************************************************)
(* 64-bit words, as eight bytes in big-endian order (encoding/binary's     *)
(* BigEndian), so that uint64 and int64 arithmetic keeps its width.        *)
(***************************************************************************)
\* uint64(n) for 0 <= n < 2^31
U64(n) == [i \in 1..WordLen |-> IF i <= 4 THEN 0 ELSE (n \div (256 ^ (WordLen - i))) % 256]

\* int64(n) for -2^31 < n < 2^31, in two's complement
I64(n) == IF n >= 0 THEN U64(n) ELSE [i \in 1..WordLen |-> 255 - U64(-n - 1)[i]]

\* The value of a word whose four high bytes are sign extension only.
LowInt(w) == w[5] * 16777216 + w[6] * 65536 + w[7] * 256 + w[8]

WordToInt(w) ==
    IF w[1] >= 128 THEN -LowInt([i \in 1..WordLen |-> 255 - w[i]]) - 1 ELSE LowInt(w)

\* The carry into byte i of w * k, from the bytes below it.
RECURSIVE MulCarry(_, _, _)
MulCarry(w, k, i) ==
    IF i = WordLen THEN 0 ELSE (w[i + 1] * k + MulCarry(w, k, i + 1)) \div 256

\* uint64 multiplication: w * k modulo 2^64
MulU64(w, k) == [i \in 1..WordLen |-> (w[i] * k + MulCarry(w, k, i)) % 256]

\* w * k does not fit in 64 bits
MulOverflows(w, k) == (w[1] * k + MulCarry(w, k, 1)) \div 256 # 0

\* a < b as uint64
ULt(a, b) == \E i \in 1..WordLen : a[i] < b[i] /\ \A j \in 1..(i - 1) : a[j] = b[j]

\* the sign bit of an int64
IsNeg(w) == w[1] >= 128

\* a > b as int64
SGt(a, b) == IF IsNeg(a) # IsNeg(b) THEN IsNeg(b) ELSE ULt(b, a)

(***************************************************************************)
(* receiver.go: msToNS and timedOut.  The timeout is a uint64 of           *)
(* milliseconds (a word); s is the rtt, an int64 of nanoseconds.           *)
(***************************************************************************)
msToNS(s) == MulU64(s, NSPerMS)

\* (the comparison turned around)
timedOutReversed(s, TimeoutMS) == SGt(msToNS(TimeoutMS), I64(s))

timedOut(s, TimeoutMS) == SGt(I64(s), msToNS(TimeoutMS))

(***************************************************************************)
(* transit_probes.go: the registry is a map from sequence number to send   *)
(* timestamp.  Each operation is given as the map it leaves and the value  *)
(* it returns.                                                             *)
(***************************************************************************)
Restrict(mm, S) == [s \in S |-> mm[s]]

\* make(map[uint64]int64)
newTransitProbes == [s \in {} |-> 0]

\* (an add that keeps the timestamp the registry already holds)
addIfAbsent(mm, seq, ts) ==
    [s \in DOMAIN mm \cup {seq} |-> IF s \in DOMAIN mm THEN mm[s] ELSE ts]

\* t.m[p.SequenceNumber] = p.TimeStamp
add(mm, seq, ts) == [s \in DOMAIN mm \cup {seq} |-> IF s = seq THEN ts ELSE mm[s]]

\* the presence test of remove: _, ok := t.m[s]
removeFound(mm, s) == s \in DOMAIN mm

\* (a remove that forgets the delete)
removeMapKeeps(mm, s, ok) == mm

\* the map remove leaves: delete(t.m, s) when found, untouched otherwise
removeMap(mm, s, ok) == IF ok THEN Restrict(mm, DOMAIN mm \ {s}) ELSE mm

\* (a sweep that also returns the entries as old as the cutoff)
getLtOrEqual(mm, lt) == Restrict(mm, {s \in DOMAIN mm : mm[s] <= lt})

\* (the comparison turned around)
getLtNewer(mm, lt) == Restrict(mm, {s \in DOMAIN mm : mm[s] > lt})

\* the copy getLt returns: every entry with ts < lt
getLt(mm, lt) == Restrict(mm, {s \in DOMAIN mm : mm[s] < lt})

\* (a sweep that deletes what it returns)
getLtMapReaping(mm, lt) == Restrict(mm, {s \in DOMAIN mm : ~(mm[s] < lt)})

\* the map getLt leaves: it only reads
getLtMap(mm, lt) == mm

(***************************************************************************)
(* The wire codec (design document, 4.1): bytes [0:8) are the sequence     *)
(* number, bytes [8:16) the timestamp, both big-endian.                    *)
(***************************************************************************)
marshal(p) == U64(p.SequenceNumber) \o I64(p.TimeStamp)

\* unmarshal fails on an input shorter than the header
unmarshalErr(buf) == Len(buf) < HeaderLen

unmarshal(buf) ==
    [SequenceNumber |-> WordToInt(SubSeq(buf, 1, WordLen)),
     TimeStamp      |-> WordToInt(SubSeq(buf, WordLen + 1, HeaderLen))]

\* udpConn.Read(recvBuffer): the datagram overwrites the head of the buffer
\* and the rest of the buffer keeps what it held.
Read(buf, d) ==
    LET n == IF Len(d) < Len(buf) THEN Len(d) ELSE Len(buf)
    IN  [i \in 1..Len(buf) |-> IF i <= n THEN d[i] ELSE buf[i]]

(***************************************************************************)
(* The measurement aggregator (design document, 4.6): one bucket per       *)
(* window, the window owning a timestamp found by integer division.        *)
(***************************************************************************)
WindowOf(ts, lenMS) == ts \div (lenMS * NSPerMS)

EmptyWindow == [sent |-> 0, recv |-> 0, lost |-> 0, rtts |-> {}]

Bucket(meas, w) == IF w \in DOMAIN meas THEN meas[w] ELSE EmptyWindow

Put(meas, w, b) == [x \in DOMAIN meas \cup {w} |-> IF x = w THEN b ELSE meas[x]]

AddSent(meas, ts, lenMS) ==
    LET w == WindowOf(ts, lenMS)
    IN  Put(meas, w, [Bucket(meas, w) EXCEPT !.sent = @ + 1])

AddRecv(meas, ts, rtt, lenMS) ==
    LET w == WindowOf(ts, lenMS)
    IN  Put(meas, w, [Bucket(meas, w) EXCEPT !.recv = @ + 1, !.rtts = @ \cup {rtt}])

AddLost(meas, ts, lenMS) ==
    LET w == WindowOf(ts, lenMS)
    IN  Put(meas, w, [Bucket(meas, w) EXCEPT !.lost = @ + 1])

(***************************************************************************)
(* config.go.  A *uint64 is Nil or its value, a *string is NilStr or its   *)
(* string, a nil slice is the empty sequence, and c.Defaults == nil is a   *)
(* Defaults record that is not present.                                    *)
(***************************************************************************)
Nil == -1
NilStr == "<nil>"

dfltBasePort == 32768
dfltClassTOS == 0
dfltClass == [Name |-> "BE", TOS |-> dfltClassTOS]
dfltTimeoutMS == 500
dfltListenAddress == ":9517"
dfltMeasurementLengthMS == 1000
dfltPayloadSizeBytes == 0
dfltPPS == 25
dfltSrcRange == "169.254.0.0/16"
dfltMetricsPath == "/metrics"

\* &Defaults{}
EmptyDefaults ==
    [present |-> TRUE, MeasurementLengthMS |-> Nil, PayloadSizeBytes |-> Nil, PPS |-> Nil,
     SrcRange |-> NilStr, TimeoutMS |-> Nil]

NoDefaults == [EmptyDefaults EXCEPT !.present = FALSE]

\* Defaults.applyDefaults
applyDefaultsDefaults(d) ==
    [d EXCEPT !.MeasurementLengthMS = IF @ = Nil THEN dfltMeasurementLengthMS ELSE @,
              !.PayloadSizeBytes = IF @ = Nil THEN dfltPayloadSizeBytes ELSE @,
              !.PPS = IF @ = Nil THEN dfltPPS ELSE @,
              !.SrcRange = IF @ = NilStr THEN dfltSrcRange ELSE @,
              !.TimeoutMS = IF @ = Nil THEN dfltTimeoutMS ELSE @]

\* (a path that takes the built-in values and passes over the defaults section)
applyDefaultsPathBuiltin(p, d) ==
    [p EXCEPT !.MeasurementLengthMS = IF @ = Nil THEN dfltMeasurementLengthMS ELSE @,
              !.PayloadSizeBytes = IF @ = Nil THEN dfltPayloadSizeBytes ELSE @,
              !.PPS = IF @ = Nil THEN dfltPPS ELSE @,
              !.TimeoutMS = IF @ = Nil THEN dfltTimeoutMS ELSE @]

\* Path.applyDefaults
applyDefaultsPath(p, d) ==
    [p EXCEPT !.MeasurementLengthMS = IF @ = Nil THEN d.MeasurementLengthMS ELSE @,
              !.PayloadSizeBytes = IF @ = Nil THEN d.PayloadSizeBytes ELSE @,
              !.PPS = IF @ = Nil THEN d.PPS ELSE @,
              !.TimeoutMS = IF @ = Nil THEN d.TimeoutMS ELSE @]

\* Router.applyDefaults
applyDefaultsRouter(r, d) == [r EXCEPT !.SrcRange = IF @ = "" THEN d.SrcRange ELSE @]

\* Config.ApplyDefaults
ApplyDefaults(c) ==
    LET d == applyDefaultsDefaults(IF c.Defaults.present THEN c.Defaults ELSE EmptyDefaults)
    IN  [c EXCEPT !.Defaults = d,
                  !.SrcRange = IF @ = NilStr THEN d.SrcRange ELSE @,
                  !.MetricsPath = IF @ = NilStr THEN dfltMetricsPath ELSE @,
                  !.ListenAddress = IF @ = NilStr THEN dfltListenAddress ELSE @,
                  !.BasePort = IF @ = Nil THEN dfltBasePort ELSE @,
                  !.Paths = [i \in DOMAIN @ |-> applyDefaultsPath(@[i], d)],
                  !.Routers = [i \in DOMAIN @ |-> applyDefaultsRouter(@[i], d)],
                  !.Classes = IF @ = << >> THEN <<dfltClass>> ELSE @]

\* net.ParseCIDR on the address ranges of the model: the network's address,
\* the ones and the bits of its mask, or an error for any other string.
ParseCIDR(str) ==
    CASE str = "10.0.0.0/30"    -> [err |-> FALSE, ip |-> <<10, 0, 0, 0>>, ones |-> 30, bits |-> 32]
      [] str = "192.0.2.1/32"   -> [err |-> FALSE, ip |-> <<192, 0, 2, 1>>, ones |-> 32, bits |-> 32]
      [] str = "169.254.0.0/16" -> [err |-> FALSE, ip |-> <<169, 254, 0, 0>>, ones |-> 16, bits |-> 32]
      [] OTHER                  -> [err |-> TRUE, ip |-> <<0, 0, 0, 0>>, ones |-> 0, bits |-> 0]

\* Config.routerExists
routerExists(c, needle) == \E i \in DOMAIN c.Routers : c.Routers[i].Name = needle

\* Config.validatePaths returns nil
validatePaths(c) ==
    \A i \in DOMAIN c.Paths : \A j \in DOMAIN c.Paths[i].Hops :
        routerExists(c, c.Paths[i].Hops[j])

\* Config.validateRouters returns nil
validateRouters(c) == \A i \in DOMAIN c.Routers : ~ParseCIDR(c.Routers[i].DstRange).err

\* Config.Validate: "" for nil, or which validation failed
Validate(c) ==
    IF ~validatePaths(c) THEN "Path validation failed"
    ELSE IF ~validateRouters(c) THEN "Router validation failed"
    ELSE ""

\* maskAddrCount: 1 for a full mask, else 2^(bits - ones) (below 2^31 for the
\* address ranges of the model)
RECURSIVE maskLoop(_, _, _)
maskLoop(x, i, bits) == IF i < bits THEN maskLoop(x * 2, i + 1, bits) ELSE x

maskAddrCount(n) == IF n.ones = n.bits THEN 1 ELSE maskLoop(1, n.ones, n.bits)

\* GenerateAddrs: a panic when the range does not parse, else the addresses
\* base, base + 1, ..., held as the base and their number
GenerateAddrs(addrRange) ==
    LET n == ParseCIDR(addrRange)
    IN  IF n.err THEN [panic |-> TRUE, base |-> n.ip, count |-> 0]
        ELSE [panic |-> FALSE, base |-> n.ip, count |-> maskAddrCount(n)]

\* Config.PathToProberHops: for each hop, in order, a prober.Hop for each router
\* of that name
RECURSIVE hopsOfRouters(_, _, _)
hopsOfRouters(c, name, j) ==
    IF j > Len(c.Routers) THEN << >>
    ELSE (IF c.Routers[j].Name = name
          THEN <<[Name |-> c.Routers[j].Name,
                  DstRange |-> GenerateAddrs(c.Routers[j].DstRange),
                  SrcRange |-> GenerateAddrs(c.Routers[j].SrcRange)]>>
          ELSE << >>) \o hopsOfRouters(c, name, j + 1)

RECURSIVE hopsFrom(_, _, _)
hopsFrom(c, pathCfg, i) ==
    IF i > Len(pathCfg.Hops) THEN << >>
    ELSE hopsOfRouters(c, pathCfg.Hops[i], 1) \o hopsFrom(c, pathCfg, i + 1)

PathToProberHops(c, pathCfg) == hopsFrom(c, pathCfg, 1)

\* a call of PathToProberHops panics
Panics(hs) == \E k \in DOMAIN hs : hs[k].DstRange.panic \/ hs[k].SrcRange.panic

(***************************************************************************)
(* State.                                                                  *)
(***************************************************************************)
VARIABLES
    cfg,            \* p.cfg: TimeoutMS (a uint64 word), MeasurementLengthMS
    mtu,            \* p.mtu: the length of the receive buffer
    now,            \* the clock, in nanoseconds
    m,              \* transitProbes.m
    l,              \* transitProbes.l: who holds the write lock
    stop,           \* p.stop is closed
    connClosed,     \* p.udpConn is closed
    probesReceived, \* p.probesReceived
    latePackets,    \* p.latePackets
    measurements,   \* p.measurements: window -> bucket
    recvPC,         \* the receiver's position
    recvBuffer,     \* the receiver's recvBuffer
    recvNow,        \* the receiver's now
    pkt,            \* the receiver's pkt
    recvOk,         \* the receiver's remove: ok of the presence test
    exitCause,      \* history: why the receiver returned
    sendPC,         \* the sender's position
    nextSeq,        \* the sender's sequence counter
    probe,          \* the sender's current probe
    writeFailed,    \* history: the sequence numbers whose write failed
    reapPC,         \* the reaper's position
    sweep,          \* the reaper's copy from getLt, entries not yet visited
    reapSeq,        \* the entry the reaper is removing
    reapOk,         \* the reaper's remove: ok of the presence test
    regOp,          \* history: the last call made on the registry by a direct caller
    dgramLen,       \* history: the length of the datagram the receiver last read
    iterStart,      \* history: the receiver's counters before that datagram
    registered,     \* history: seq -> the timestamp add registered for it
    claimed,        \* history: seq -> the callers whose remove(seq) succeeded
    outcomes,       \* history: seq -> the outcomes recorded for it
    conf,           \* the Config being prepared for the engine
    conf0,          \* history: the Config as loaded
    confPC,         \* how far the preparation of the Config has come
    validateErr,    \* what Validate returned ("" for nil)
    hops            \* per path, what PathToProberHops returned

vars == <<cfg, mtu, now, m, l, stop, connClosed, probesReceived, latePackets,
          measurements, recvPC, recvBuffer, recvNow, pkt, recvOk, exitCause, sendPC,
          nextSeq,
          probe, writeFailed, reapPC, sweep, reapSeq, reapOk, regOp, dgramLen, iterStart, registered,
          claimed, outcomes, conf, conf0, confPC, validateErr, hops>>

confVars == <<conf, conf0, confPC, validateErr, hops>>
recvVars == <<recvPC, recvBuffer, recvNow, pkt, recvOk, exitCause>>
sendVars == <<sendPC, nextSeq, probe, writeFailed>>
reapVars == <<reapPC, sweep, reapSeq, reapOk>>
counters == <<probesReceived, latePackets, measurements>>
history  == <<dgramLen, iterStart, registered, claimed, outcomes>>

SeqNums == 0..MaxSeq
MaxNow == MaxTicks * TickNS
TimeStamps == {k * TickNS : k \in 0..MaxTicks}

\* The datagrams the network may hand to the receiver: a probe as marshalled,
\* with any sequence number and timestamp field (a reply, a duplicate, a late
\* or forged one), whole or cut short.
\* Its timestamp field is the one registered for the sequence number (a true
\* reply) or a forged one: the latest time of the run.
DatagramLens == {WordLen, HeaderLen}
ForgedTimeStamps == {MaxNow}
ReplyTimeStamps(s) ==
    (IF s \in DOMAIN registered THEN {registered[s]} ELSE {}) \cup ForgedTimeStamps
Replies ==
    UNION {{marshal([SequenceNumber |-> s, TimeStamp |-> t]) : t \in ReplyTimeStamps(s)} :
              s \in SeqNums}
Datagrams == {SubSeq(d, 1, n) : d \in Replies, n \in DatagramLens}

MTUChoices == {WordLen, HeaderLen}

\* The timeout as a duration in nanoseconds (small timeouts only).
TimeoutNS == WordToInt(cfg.TimeoutMS) * NSPerMS

Append1(f, s, x) == [f EXCEPT ![s] = Append(@, x)]

\* A call on the registry: add(seq, ts), remove(seq) or getLt(ts); prev is the
\* timestamp the registry held for seq before the call (-1: none), ok is
\* whether remove returned nil.
RegCall(op, seq, ts, prev, ok) == [op |-> op, seq |-> seq, ts |-> ts, prev |-> prev, ok |-> ok]

NoOp == RegCall("none", 0, 0, -1, TRUE)

(***************************************************************************)
(* The configurations of the model: a defaults section absent or with any  *)
(* of its values set, one path with any of its values set and hops that    *)
(* name one router, two routers or an unknown router, and two routers with *)
(* address ranges that parse, do not parse or are left empty.              *)
(***************************************************************************)
OptOf(v) == {Nil, v}

DefaultsChoices ==
    {NoDefaults} \cup
    [present : {TRUE}, MeasurementLengthMS : OptOf(3000), PayloadSizeBytes : OptOf(128),
     PPS : OptOf(50), SrcRange : {NilStr, "192.0.2.1/32"}, TimeoutMS : OptOf(300)]

PathChoices ==
    [Name : {"p1"}, Hops : {<<"r1">>, <<"r1", "r2">>, <<"r3">>},
     MeasurementLengthMS : OptOf(2000), PayloadSizeBytes : OptOf(64), PPS : OptOf(10),
     TimeoutMS : OptOf(200)]

RouterChoices(name, dsts, srcs) == [Name : {name}, DstRange : dsts, SrcRange : srcs]

RoutersChoices ==
    {<<r1, r2>> : r1 \in RouterChoices("r1", {"10.0.0.0/30", "10.0.0.0/33"},
                                        {"", "10.0.0.0/30", "10.0.0.0/33"}),
                  r2 \in RouterChoices("r2", {"192.0.2.1/32"}, {"", "not a range"})}

Configs ==
    {[Defaults |-> d, SrcRange |-> NilStr, MetricsPath |-> NilStr, ListenAddress |-> NilStr,
      BasePort |-> Nil, Classes |-> << >>, Paths |-> <<p>>, Routers |-> rs] :
        d \in DefaultsChoices, p \in PathChoices, rs \in RoutersChoices}

\* no Config is being prepared
ConfIdle ==
    /\ conf = [Defaults |-> NoDefaults, SrcRange |-> NilStr, MetricsPath |-> NilStr,
               ListenAddress |-> NilStr, BasePort |-> Nil, Classes |-> << >>,
               Paths |-> << >>, Routers |-> << >>]
    /\ conf0 = conf
    /\ confPC = "idle"
    /\ validateErr = ""
    /\ hops = << >>

\* The state of the prober when the loops start, under configuration c.
InitProber(c) ==
    /\ cfg = c
    /\ mtu \in MTUChoices
    /\ now = 0
    /\ m = newTransitProbes
    /\ l = "none"
    /\ stop = FALSE
    /\ connClosed = FALSE
    /\ probesReceived = 0
    /\ latePackets = 0
    /\ measurements = [w \in {} |-> EmptyWindow]
    /\ recvPC = "select"
    /\ recvBuffer = [i \in 1..mtu |-> 0]
    /\ recvNow = 0
    /\ pkt = [SequenceNumber |-> 0, TimeStamp |-> 0]
    /\ recvOk = FALSE
    /\ exitCause = "none"
    /\ sendPC = "tick"
    /\ nextSeq = 0
    /\ probe = [SequenceNumber |-> 0, TimeStamp |-> 0]
    /\ writeFailed = {}
    /\ reapPC = "idle"
    /\ sweep = newTransitProbes
    /\ reapSeq = 0
    /\ reapOk = FALSE
    /\ regOp = NoOp
    /\ dgramLen = 0
    /\ iterStart = [probesReceived |-> 0, latePackets |-> 0, recv |-> 0]
    /\ registered = newTransitProbes
    /\ claimed = [s \in SeqNums |-> << >>]
    /\ outcomes = [s \in SeqNums |-> << >>]

\* The state when the loops start, under configuration c.
InitCfg(c) == InitProber(c) /\ ConfIdle

\* A timeout and a window length of one millisecond.
Init == InitCfg([TimeoutMS |-> U64(1), MeasurementLengthMS |-> 1])

\* Timeouts up to the width of the configuration's uint64: 1 ms, the largest
\* whose nanoseconds fit an int64 (9223372036854 ms), the next one
\* (9223372036855 ms) and the first whose nanoseconds pass 2^64
\* (18446744073710 ms).
TimeoutChoices ==
    {U64(1),
     <<0, 0, 8, 99, 123, 208, 90, 246>>,
     <<0, 0, 8, 99, 123, 208, 90, 247>>,
     <<0, 0, 16, 198, 247, 160, 181, 238>>}

InitTimeouts ==
    \E t \in TimeoutChoices : InitCfg([TimeoutMS |-> t, MeasurementLengthMS |-> 1])

(***************************************************************************)
(* transitProbes.l.  Lock waits until nobody holds the lock; RLock waits   *)
(* until no writer holds it.  The bodies of add and getLt are one step     *)
(* under the lock; remove is two: the presence test, then the delete and   *)
(* the unlock.                                                             *)
(***************************************************************************)
\* (a remove that does not take the lock)
CanLockNoMutex == TRUE

CanLock == l = "none"

CanRLock == l = "none"

(***************************************************************************)
(* The clock and the stop signal.                                          *)
(***************************************************************************)
Tick ==
    /\ now < MaxNow
    /\ now' = now + TickNS
    /\ UNCHANGED <<confVars, regOp, cfg, mtu, m, l, stop, connClosed, counters, recvVars, sendVars,
                   reapVars, history>>

Stop ==
    /\ ~stop
    /\ stop' = TRUE
    /\ UNCHANGED <<confVars, regOp, cfg, mtu, now, m, l, connClosed, counters, recvVars, sendVars,
                   reapVars, history>>

\* The stopper closes the socket after raising the signal, which makes a
\* blocked Read return with an error (design document, 5).
CloseConn ==
    /\ stop
    /\ ~connClosed
    /\ connClosed' = TRUE
    /\ UNCHANGED <<confVars, regOp, cfg, mtu, now, m, l, stop, counters, recvVars, sendVars, reapVars,
                   history>>

(***************************************************************************)
(* receiver.go: Prober.receiver.                                           *)
(***************************************************************************)
NoPkt == [SequenceNumber |-> 0, TimeStamp |-> 0]

\* the samples the aggregator holds: the sum of recv over its windows
RECURSIVE RecvTotalOver(_, _)
RecvTotalOver(meas, W) ==
    IF W = {} THEN 0
    ELSE LET w == CHOOSE x \in W : TRUE
         IN  meas[w].recv + RecvTotalOver(meas, W \ {w})

RecvTotal(meas) == RecvTotalOver(meas, DOMAIN meas)

\* (a loop head that does not look at the stop signal)
RecvSelectIgnoresStop ==
    /\ recvPC = "select"
    /\ recvPC' = "read"
    /\ recvNow' = 0
    /\ pkt' = NoPkt
    /\ recvOk' = FALSE
    /\ UNCHANGED <<confVars, regOp, cfg, mtu, now, m, l, stop, connClosed, counters, recvBuffer,
                   exitCause, sendVars, reapVars, history>>

\* select { case <-p.stop: return; default: }, with the deferred Close; now, pkt
\* and err are new variables in every iteration
RecvSelect ==
    /\ recvPC = "select"
    /\ IF stop
         THEN recvPC' = "exited" /\ connClosed' = TRUE /\ exitCause' = "stop"
         ELSE recvPC' = "read" /\ UNCHANGED <<connClosed, exitCause>>
    /\ recvNow' = 0
    /\ pkt' = NoPkt
    /\ recvOk' = FALSE
    /\ UNCHANGED <<confVars, regOp, cfg, mtu, now, m, l, stop, counters, recvBuffer, sendVars, reapVars,
                   history>>

\* (a return that leaves the socket open)
RecvReadErrLeaks ==
    /\ recvPC = "read"
    /\ recvPC' = "exited"
    /\ exitCause' = "read"
    /\ UNCHANGED <<confVars, regOp, cfg, mtu, now, m, l, stop, connClosed, counters, recvBuffer, recvNow,
                   pkt, recvOk, sendVars, reapVars, history>>

\* udpConn.Read fails: log and return, with the deferred Close
RecvReadErr ==
    /\ recvPC = "read"
    /\ recvPC' = "exited"
    /\ connClosed' = TRUE
    /\ exitCause' = "read"
    /\ UNCHANGED <<confVars, regOp, cfg, mtu, now, m, l, stop, counters, recvBuffer, recvNow, pkt, recvOk,
                   sendVars, reapVars, history>>

\* udpConn.Read delivers datagram d into recvBuffer (an open socket only); the
\* datagram is counted and the whole buffer is unmarshalled.
RecvRead(d) ==
    /\ recvPC = "read"
    /\ ~connClosed
    /\ probesReceived < MaxDatagrams
    /\ recvBuffer' = Read(recvBuffer, d)
    /\ recvNow' = now
    /\ probesReceived' = probesReceived + 1
    /\ IF unmarshalErr(recvBuffer')
         THEN /\ recvPC' = "exited" /\ connClosed' = TRUE /\ exitCause' = "unmarshal"
              /\ UNCHANGED pkt
         ELSE /\ recvPC' = "remove" /\ pkt' = unmarshal(recvBuffer')
              /\ UNCHANGED <<connClosed, exitCause>>
    /\ dgramLen' = Len(d)
    /\ iterStart' = [probesReceived |-> probesReceived, latePackets |-> latePackets,
                     recv |-> RecvTotal(measurements)]
    /\ UNCHANGED <<confVars, regOp, cfg, mtu, now, m, l, stop, latePackets, measurements, recvOk,
                   sendVars, reapVars, registered, claimed, outcomes>>

\* p.transitProbes.remove(pkt.SequenceNumber): Lock and the presence test
RecvRemoveLock ==
    /\ recvPC = "remove"
    /\ CanLock
    /\ l' = "receiver"
    /\ recvOk' = removeFound(m, pkt.SequenceNumber)
    /\ recvPC' = "locked"
    /\ UNCHANGED <<confVars, regOp, cfg, mtu, now, m, stop, connClosed, counters, recvBuffer, recvNow,
                   pkt, exitCause, sendVars, reapVars, history>>

\* rtt := now - pkt.TimeStamp
recvRTT == recvNow - pkt.TimeStamp

\* (the sample filed under the arrival time)
recvSampleTSArrival == recvNow

\* the timestamp the receiver hands to AddRecv
recvSampleTS == pkt.TimeStamp

\* (an unknown sequence number counted as a late packet)
RecvNotFoundCounted ==
    /\ latePackets' = latePackets + 1
    /\ UNCHANGED <<measurements, claimed, outcomes>>

\* remove returned an error: continue
RecvNotFound == UNCHANGED <<latePackets, measurements, claimed, outcomes>>

\* remove returned nil: the reply is late (latePackets) or a sample (AddRecv)
RecvMatched ==
    /\ claimed' = Append1(claimed, pkt.SequenceNumber, "receiver")
    /\ IF timedOut(recvRTT, cfg.TimeoutMS)
         THEN /\ latePackets' = latePackets + 1
              /\ UNCHANGED measurements
              /\ outcomes' = Append1(outcomes, pkt.SequenceNumber,
                                      [kind |-> "late", rtt |-> recvRTT,
                                       ts |-> pkt.TimeStamp])
         ELSE /\ measurements' = AddRecv(measurements, recvSampleTS, I64(recvRTT),
                                         cfg.MeasurementLengthMS)
              /\ UNCHANGED latePackets
              /\ outcomes' = Append1(outcomes, pkt.SequenceNumber,
                                      [kind |-> "received", rtt |-> recvRTT,
                                       ts |-> recvSampleTS])

\* remove deletes and unlocks; then the receiver continues or classifies
RecvRemoveUnlock ==
    /\ recvPC = "locked"
    /\ m' = removeMap(m, pkt.SequenceNumber, recvOk)
    /\ l' = "none"
    /\ recvPC' = "select"
    /\ IF recvOk THEN RecvMatched ELSE RecvNotFound
    /\ UNCHANGED <<confVars, regOp, cfg, mtu, now, stop, connClosed, probesReceived, recvBuffer, recvNow,
                   pkt, recvOk, exitCause, sendVars, reapVars, dgramLen, iterStart,
                   registered>>

receiver ==
    \/ RecvSelect
    \/ RecvReadErr
    \/ \E d \in Datagrams : RecvRead(d)
    \/ RecvRemoveLock
    \/ RecvRemoveUnlock

(***************************************************************************)
(* The sender loop (design document, 4.3): a tick allocates the next       *)
(* sequence number, registers the probe, counts it as sent and writes it.  *)
(***************************************************************************)
\* The tick with its write succeeding, as one step.
SenderSend ==
    /\ sendPC = "tick"
    /\ ~stop
    /\ nextSeq < MaxSeq
    /\ CanLock
    /\ probe' = [SequenceNumber |-> nextSeq, TimeStamp |-> now]
    /\ nextSeq' = nextSeq + 1
    /\ m' = add(m, nextSeq, now)
    /\ registered' = add(registered, nextSeq, now)
    /\ measurements' = AddSent(measurements, now, cfg.MeasurementLengthMS)
    /\ UNCHANGED <<confVars, regOp, cfg, mtu, now, l, stop, connClosed, probesReceived, latePackets,
                   recvVars, sendPC, writeFailed, reapVars, dgramLen, iterStart, claimed,
                   outcomes>>

sender == SenderSend

\* The tick statement by statement.  Steps 1 and 4: with no stop signal,
\* allocate the next sequence number and add(sequenceNumber, now).
SenderAdd ==
    /\ sendPC = "tick"
    /\ ~stop
    /\ nextSeq < MaxSeq
    /\ CanLock
    /\ probe' = [SequenceNumber |-> nextSeq, TimeStamp |-> now]
    /\ nextSeq' = nextSeq + 1
    /\ m' = add(m, nextSeq, now)
    /\ registered' = add(registered, nextSeq, now)
    /\ sendPC' = "count"
    /\ UNCHANGED <<confVars, regOp, cfg, mtu, now, l, stop, connClosed, counters, recvVars,
                   writeFailed, reapVars, dgramLen, iterStart, claimed, outcomes>>

\* Step 4: increment the aggregator's sent counter.
SenderCount ==
    /\ sendPC = "count"
    /\ measurements' = AddSent(measurements, probe.TimeStamp, cfg.MeasurementLengthMS)
    /\ sendPC' = "write"
    /\ UNCHANGED <<confVars, regOp, cfg, mtu, now, m, l, stop, connClosed, probesReceived,
                   latePackets, recvVars, nextSeq, probe, writeFailed, reapVars, history>>

\* Steps 4 and 5: write the packet to the socket; on a write failure log and
\* continue with the next tick.
SenderWrite(ok) ==
    /\ sendPC = "write"
    /\ writeFailed' = IF ok THEN writeFailed ELSE writeFailed \cup {probe.SequenceNumber}
    /\ sendPC' = "tick"
    /\ UNCHANGED <<confVars, regOp, cfg, mtu, now, m, l, stop, connClosed, counters, recvVars,
                   nextSeq, probe, reapVars, history>>

senderSteps ==
    \/ SenderAdd
    \/ SenderCount
    \/ \E ok \in BOOLEAN : SenderWrite(ok)

(***************************************************************************)
(* The timeout reaper (design document, 4.5), on the registry as           *)
(* transit_probes.go gives it: a cycle takes getLt(now - timeout), then    *)
(* claims each returned entry with remove and counts it lost when remove   *)
(* succeeds.                                                               *)
(***************************************************************************)
ReaperSweep ==
    /\ reapPC = "idle"
    /\ CanRLock
    /\ sweep' = getLt(m, now - TimeoutNS)
    /\ m' = getLtMap(m, now - TimeoutNS)
    /\ reapPC' = IF DOMAIN sweep' = {} THEN "idle" ELSE "claim"
    /\ UNCHANGED <<confVars, regOp, cfg, mtu, now, l, stop, connClosed, counters, recvVars, sendVars,
                   reapSeq, reapOk, history>>

ReaperRemoveLock(s) ==
    /\ reapPC = "claim"
    /\ s \in DOMAIN sweep
    /\ CanLock
    /\ l' = "reaper"
    /\ reapSeq' = s
    /\ reapOk' = removeFound(m, s)
    /\ reapPC' = "locked"
    /\ UNCHANGED <<confVars, regOp, cfg, mtu, now, m, stop, connClosed, counters, recvVars, sendVars,
                   sweep, history>>

ReaperRemoveUnlock ==
    /\ reapPC = "locked"
    /\ m' = removeMap(m, reapSeq, reapOk)
    /\ l' = "none"
    /\ sweep' = Restrict(sweep, DOMAIN sweep \ {reapSeq})
    /\ reapPC' = IF DOMAIN sweep' = {} THEN "idle" ELSE "claim"
    /\ IF reapOk
         THEN /\ claimed' = Append1(claimed, reapSeq, "reaper")
              /\ measurements' = AddLost(measurements, sweep[reapSeq],
                                         cfg.MeasurementLengthMS)
              /\ outcomes' = Append1(outcomes, reapSeq,
                                      [kind |-> "lost", rtt |-> 0, ts |-> sweep[reapSeq]])
         ELSE UNCHANGED <<measurements, claimed, outcomes>>
    /\ reapSeq' = 0
    /\ reapOk' = FALSE
    /\ UNCHANGED <<confVars, regOp, cfg, mtu, now, stop, connClosed, probesReceived, latePackets,
                   recvVars, sendVars, dgramLen, iterStart, registered>>

reaper ==
    \/ ReaperSweep
    \/ \E s \in SeqNums : ReaperRemoveLock(s)
    \/ ReaperRemoveUnlock

Next == Tick \/ receiver \/ sender \/ reaper

Spec == Init /\ [][Next]_vars

\* The reaper as a periodic task that keeps running: it wakes every
\* ReaperPeriod and ends its cycle before the next period, so the clock does
\* not pass a period's end while the reaper has an expired entry to sweep or a
\* cycle to finish.  The loops are scheduled fairly.
ReaperPeriod == TickNS

TickTimed ==
    /\ reapPC = "idle"
    /\ DOMAIN getLt(m, now - TimeoutNS) = {}
    /\ Tick

NextTimed == TickTimed \/ receiver \/ sender \/ reaper

SpecTimed ==
    /\ Init
    /\ [][NextTimed]_vars
    /\ WF_vars(TickTimed)
    /\ WF_vars(reaper)
    /\ WF_vars(RecvRemoveUnlock)

\* The receiver and the sender under every timeout of TimeoutChoices.
NextTimeouts == Tick \/ receiver \/ sender

SpecTimeouts == InitTimeouts /\ [][NextTimeouts]_vars

\* The loops with the sender's tick statement by statement and writes that may
\* fail.
NextSender == Tick \/ receiver \/ senderSteps \/ reaper

SpecSender == Init /\ [][NextSender]_vars

\* The registry on its own: add, remove and getLt called one after another with
\* any sequence number and any timestamp, each call running to its end under
\* the lock it takes.
\* p.TimeStamp in the calls of add: three times in order
RegTimeStamps == {k * TickNS : k \in 0..2}

Cutoffs == RegTimeStamps \cup {3 * TickNS}

PrevOf(mm, s) == IF s \in DOMAIN mm THEN mm[s] ELSE -1

RegUnchanged ==
    UNCHANGED <<confVars, cfg, mtu, now, l, stop, connClosed, counters, recvVars,
                sendVars, reapPC, reapSeq, reapOk, history>>

RegAdd(s, ts) ==
    /\ CanLock
    /\ m' = add(m, s, ts)
    /\ regOp' = RegCall("add", s, ts, PrevOf(m, s), TRUE)
    /\ UNCHANGED sweep
    /\ RegUnchanged

RegRemove(s) ==
    /\ CanLock
    /\ m' = removeMap(m, s, removeFound(m, s))
    /\ regOp' = RegCall("remove", s, 0, PrevOf(m, s), removeFound(m, s))
    /\ UNCHANGED sweep
    /\ RegUnchanged

RegGetLt(lt) ==
    /\ CanRLock
    /\ sweep' = getLt(m, lt)
    /\ m' = getLtMap(m, lt)
    /\ regOp' = RegCall("getLt", 0, lt, -1, TRUE)
    /\ RegUnchanged

NextRegistry ==
    \/ \E s \in SeqNums, ts \in RegTimeStamps : RegAdd(s, ts)
    \/ \E s \in SeqNums : RegRemove(s)
    \/ \E lt \in Cutoffs : RegGetLt(lt)

SpecRegistry == Init /\ [][NextRegistry]_vars

\* Cancellation: the stop signal is raised and the socket closed while the
\* receiver and the sender run and the clock advances.  The receiver's own statements are scheduled
\* fairly, and a Read on a closed socket returns.
\* The clock runs until a reply to the first probe can be late.
TickStop == now <= TimeoutNS /\ Tick

NextStop == TickStop \/ Stop \/ CloseConn \/ receiver \/ sender

SpecStop ==
    /\ Init
    /\ [][NextStop]_vars
    /\ WF_vars(RecvSelect)
    /\ WF_vars(RecvRemoveLock)
    /\ WF_vars(RecvRemoveUnlock)
    /\ WF_vars(connClosed /\ RecvReadErr)

(***************************************************************************)
(* Preparing a Config for the engine: it is loaded, ApplyDefaults fills it *)
(* in, Validate accepts or rejects it, and for an accepted Config the      *)
(* engine starts by expanding each path with PathToProberHops.             *)
(***************************************************************************)
proberVars == <<cfg, mtu, now, m, l, stop, connClosed, counters, recvVars, sendVars,
                reapVars, regOp, history>>

InitConfig ==
    /\ InitProber([TimeoutMS |-> U64(1), MeasurementLengthMS |-> 1])
    /\ mtu = HeaderLen
    /\ conf \in Configs
    /\ conf0 = conf
    /\ confPC = "loaded"
    /\ validateErr = ""
    /\ hops = << >>

ConfApplyDefaults ==
    /\ confPC = "loaded"
    /\ conf' = ApplyDefaults(conf)
    /\ confPC' = "defaulted"
    /\ UNCHANGED <<conf0, validateErr, hops, proberVars>>

ConfValidate ==
    /\ confPC = "defaulted"
    /\ validateErr' = Validate(conf)
    /\ confPC' = IF validateErr' = "" THEN "valid" ELSE "invalid"
    /\ UNCHANGED <<conf, conf0, hops, proberVars>>

ConfStart ==
    /\ confPC = "valid"
    /\ hops' = [i \in DOMAIN conf.Paths |-> PathToProberHops(conf, conf.Paths[i])]
    /\ confPC' = IF \E i \in DOMAIN hops' : Panics(hops'[i]) THEN "panicked" ELSE "started"
    /\ UNCHANGED <<conf, conf0, validateErr, proberVars>>

NextConfig == ConfApplyDefaults \/ ConfValidate \/ ConfStart

SpecConfig == InitConfig /\ [][NextConfig]_vars

(***************************************************************************)
(* Properties.                                                             *)
(***************************************************************************)

RemoveReturns(s, ok) ==
    IF ok
    THEN /\ s \in DOMAIN m
         /\ m' = Restrict(m, DOMAIN m \ {s})
         /\ claimed[s] = << >>
    ELSE /\ s \notin DOMAIN m
         /\ m' = m
         /\ (s \in DOMAIN registered => Len(claimed[s]) = 1)

\* C3: remove tests and deletes in one critical section.  A remove(s) returns
\* success only when s is in the registry, it is then the first remove of s to
\* succeed, and it deletes s; a remove(s) that returns not-found leaves the
\* registry unchanged, and if s was ever added, one earlier remove of s
\* succeeded.
C3_RemoveAtomic ==
    [][/\ (recvPC = "locked" /\ recvPC' # "locked") =>
            RemoveReturns(pkt.SequenceNumber, recvOk)
       /\ (reapPC = "locked" /\ reapPC' # "locked") =>
            RemoveReturns(reapSeq, reapOk)]_vars

\* The second datagram for a sequence number: its remove returned not-found
\* after the receiver's first remove of it succeeded.
C3_Witness ==
    /\ recvPC = "select"
    /\ probesReceived = 2
    /\ ~recvOk
    /\ pkt.SequenceNumber \in DOMAIN registered
    /\ claimed[pkt.SequenceNumber] = <<"receiver">>

\* rtt > timeout_ms * 1,000,000 in the integers, for an rtt that fits the model
\* and any uint64 timeout
ExceedsTimeout(rtt, TimeoutMS) ==
    /\ rtt >= 0
    /\ ~MulOverflows(TimeoutMS, NSPerMS)
    /\ ULt(MulU64(TimeoutMS, NSPerMS), U64(rtt))

\* C4: every matched reply is classified late if and only if its rtt exceeds
\* timeout_ms * 1,000,000 nanoseconds, and is a received sample otherwise, for
\* every rtt and every configured timeout.
C4_LateIffExceeds ==
    \A s \in SeqNums :
        \A i \in 1..Len(outcomes[s]) :
            LET o == outcomes[s][i]
            IN  /\ o.kind \in {"late", "received"}
                /\ (o.kind = "late") <=> ExceedsTimeout(o.rtt, cfg.TimeoutMS)

\* the receiver's remove returns, with ok as its presence test found it
RecvRemoveReturns(ok) == recvPC = "locked" /\ recvOk = ok /\ recvPC' # "locked"

\* the outcome the step records for sequence number s
Recorded(s) == outcomes'[s][Len(outcomes'[s])]

\* C5 as stated: when remove returns not-found the receiver keeps running and
\* no counter of the prober has changed since before the datagram was read.
C5_NoCounterChanges ==
    [][RecvRemoveReturns(FALSE) =>
            /\ recvPC' = "select"
            /\ probesReceived' = iterStart.probesReceived
            /\ latePackets' = iterStart.latePackets
            /\ RecvTotal(measurements') = iterStart.recv]_vars

\* C5 amended: when remove returns not-found the receiver keeps running, the
\* registry, latePackets, the measurements and the recorded outcomes are as
\* before the datagram, and probesReceived, which counts every datagram read,
\* is one higher.
C5_OnlyProbesReceived ==
    [][RecvRemoveReturns(FALSE) =>
            /\ recvPC' = "select"
            /\ m' = m
            /\ probesReceived' = iterStart.probesReceived + 1
            /\ latePackets' = iterStart.latePackets
            /\ measurements' = measurements
            /\ RecvTotal(measurements') = iterStart.recv
            /\ outcomes' = outcomes]_vars

\* A reply to a probe the reaper has already claimed: remove returned not-found
\* and the receiver is back at the head of its loop.
C5_Witness ==
    /\ recvPC = "select"
    /\ probesReceived = iterStart.probesReceived + 1
    /\ dgramLen = HeaderLen
    /\ ~recvOk
    /\ claimed[pkt.SequenceNumber] = <<"reaper">>
    /\ latePackets = 0
    /\ RecvTotal(measurements) = 0

C8_RttFromRegistry ==
    [][RecvRemoveReturns(TRUE) =>
            LET s == pkt.SequenceNumber
            IN  /\ Recorded(s).rtt = recvNow - registered[s]
                /\ Recorded(s).ts = registered[s]
                /\ (Recorded(s).kind = "late") <=> (recvNow - registered[s] > TimeoutNS)]_vars

\* C9: a datagram shorter than the 16-byte header removes no registry entry
\* and adds nothing to the late or received counts.
C9_ShortDatagramIgnored ==
    [][(recvPC = "locked" /\ dgramLen < HeaderLen) =>
            /\ m' = m
            /\ latePackets' = latePackets
            /\ RecvTotal(measurements') = RecvTotal(measurements)]_vars

C11_ExitStopsReception ==
    [][/\ (recvPC = "read" /\ recvPC' # "read" /\ probesReceived' = probesReceived) =>
            recvPC' = "exited"
       /\ (recvPC = "read" /\ probesReceived' # probesReceived
                           /\ dgramLen' < HeaderLen) =>
            recvPC' = "exited"
       /\ recvPC = "exited" =>
            /\ recvPC' = "exited"
            /\ recvBuffer' = recvBuffer
            /\ probesReceived' = probesReceived
            /\ latePackets' = latePackets
            /\ RecvTotal(measurements') = RecvTotal(measurements)
            /\ \A s \in SeqNums :
                  /\ (s \in DOMAIN m /\ s \notin DOMAIN m') =>
                        (reapPC = "locked" /\ reapSeq = s)
                  /\ outcomes'[s] # outcomes[s] => Recorded(s).kind = "lost"]_vars

\* C12: the receiver enters a Read only from the head of its loop and only
\* when the stop signal is not raised there; at the head of the loop with the
\* signal raised it returns; and once the signal is raised and the socket
\* closed the receiver eventually returns.
C12_StopTerminates ==
    /\ [][(recvPC' = "read" /\ recvPC # "read") => (recvPC = "select" /\ ~stop)]_vars
    /\ [][(recvPC = "select" /\ stop /\ recvPC' # "select") =>
             (recvPC' = "exited" /\ probesReceived' = probesReceived)]_vars
    /\ (stop /\ connClosed) ~> (recvPC = "exited")

\* The receiver handled a datagram and returned at the next head of its loop,
\* where it found the signal raised.
C12_Witness ==
    /\ stop
    /\ connClosed
    /\ recvPC = "exited"
    /\ exitCause = "stop"
    /\ probesReceived >= 1

\* C19: whenever the receiver has returned the socket is closed, and a step
\* that closes the socket is the receiver's return or the stopper's close,
\* which leaves the receiver where it is.
C19_ClosedOnExit ==
    /\ [](recvPC = "exited" => connClosed)
    /\ [][(connClosed' /\ ~connClosed) =>
             (recvPC' = "exited" \/ (stop /\ UNCHANGED recvVars))]_vars

\* The receiver returned on a failed Read while no stop signal was raised, and
\* the socket is closed.
C19_Witness ==
    /\ recvPC = "exited"
    /\ exitCause = "read"
    /\ ~stop
    /\ connClosed

\* C16: a sweep of the reaper, taken with cutoff now - timeout, returns exactly
\* the entries whose timestamp is strictly less than the cutoff, each with the
\* timestamp add registered, and leaves the registry as it was; so the reaper
\* records a probe as lost only when its age is more than the timeout.
C16_SweepStrictlyOlder ==
    [][/\ (reapPC = "idle" /\ reapPC' = "claim") =>
            /\ DOMAIN sweep' = {s \in DOMAIN m : m[s] < now - TimeoutNS}
            /\ \A s \in DOMAIN sweep' :
                  sweep'[s] = registered[s] /\ now - sweep'[s] > TimeoutNS
            /\ \A s \in DOMAIN m \ DOMAIN sweep' : now - m[s] <= TimeoutNS
            /\ m' = m
       /\ \A s \in SeqNums :
            (outcomes'[s] # outcomes[s] /\ Recorded(s).kind = "lost") =>
                now - registered[s] > TimeoutNS]_vars

\* The sweep has returned a probe that is one clock step older than the timeout.
C16_Witness ==
    /\ reapPC = "claim"
    /\ \E s \in DOMAIN sweep :
          /\ s \in DOMAIN m
          /\ sweep[s] = registered[s]
          /\ now - sweep[s] = TimeoutNS + TickNS

C18_SampleWithinTimeout ==
    \A w \in DOMAIN measurements :
        \A r \in measurements[w].rtts :
            /\ ~IsNeg(r)
            /\ ~ULt(msToNS(cfg.TimeoutMS), r)

\* window w is fully closed: the clock has passed its end
WindowClosed(w) == now >= (w + 1) * cfg.MeasurementLengthMS * NSPerMS

\* C13: in every window that is fully closed, sent >= received + lost.
C13_SentCoversOutcomes ==
    \A w \in DOMAIN measurements :
        WindowClosed(w) =>
            measurements[w].sent >= measurements[w].recv + measurements[w].lost

\* the probes the aggregator counts as sent, over all windows
RECURSIVE SentTotalOver(_, _)
SentTotalOver(meas, W) ==
    IF W = {} THEN 0
    ELSE LET w == CHOOSE x \in W : TRUE
         IN  meas[w].sent + SentTotalOver(meas, W \ {w})

\* C14: after a failed write the sender is back at its tick, and a probe
\* whose write failed is not registered, is not among the probes counted as
\* sent, and is never recorded as lost.
C14_FailedWriteNotCounted ==
    /\ \A s \in writeFailed :
          /\ s \notin DOMAIN m
          /\ \A i \in 1..Len(outcomes[s]) : outcomes[s][i].kind # "lost"
    /\ SentTotalOver(measurements, DOMAIN measurements) <=
          Cardinality(DOMAIN registered \ writeFailed)

\* every address range of every router parses, destination and source
RangesWellFormed(c) ==
    \A i \in DOMAIN c.Routers :
        ~ParseCIDR(c.Routers[i].DstRange).err /\ ~ParseCIDR(c.Routers[i].SrcRange).err

\* C15: a Config that Validate accepts names only configured routers in its
\* paths and has only well-formed destination and source ranges, and the
\* engine's start never panics in PathToProberHops.
C15_ValidateGuardsStart ==
    /\ confPC \in {"valid", "started", "panicked"} =>
          validatePaths(conf) /\ RangesWellFormed(conf)
    /\ confPC # "panicked"

\* the value ApplyDefaults must leave in a path's field: the path's own, else
\* the defaults section's, else the built-in one
Precedence(own, section, builtin) ==
    IF own # Nil THEN own ELSE IF section # Nil THEN section ELSE builtin

\* C20: after ApplyDefaults every path has its four values by precedence (own,
\* defaults section, built-in: 1000 ms, 0 bytes, 25 pps, 500 ms), the values
\* set in the defaults section are kept, and ApplyDefaults applied again
\* changes nothing.
C20_DefaultsByPrecedence ==
    confPC \in {"defaulted", "valid", "invalid", "started", "panicked"} =>
        /\ \A i \in DOMAIN conf.Paths :
              LET p == conf.Paths[i]
                  p0 == conf0.Paths[i]
                  d0 == conf0.Defaults
              IN  /\ p.MeasurementLengthMS =
                        Precedence(p0.MeasurementLengthMS, d0.MeasurementLengthMS, 1000)
                  /\ p.PayloadSizeBytes =
                        Precedence(p0.PayloadSizeBytes, d0.PayloadSizeBytes, 0)
                  /\ p.PPS = Precedence(p0.PPS, d0.PPS, 25)
                  /\ p.TimeoutMS = Precedence(p0.TimeoutMS, d0.TimeoutMS, 500)
                  /\ p.Name = p0.Name /\ p.Hops = p0.Hops
        /\ conf.Defaults.MeasurementLengthMS =
              Precedence(conf0.Defaults.MeasurementLengthMS, Nil, 1000)
        /\ conf.Defaults.PayloadSizeBytes = Precedence(conf0.Defaults.PayloadSizeBytes, Nil, 0)
        /\ conf.Defaults.PPS = Precedence(conf0.Defaults.PPS, Nil, 25)
        /\ conf.Defaults.TimeoutMS = Precedence(conf0.Defaults.TimeoutMS, Nil, 500)
        /\ ApplyDefaults(conf) = conf

\* ApplyDefaults has filled a path that had its own timeout, took the PPS of
\* the defaults section and got the built-in measurement length.
C20_Witness ==
    /\ confPC = "defaulted"
    /\ conf0.Paths[1].TimeoutMS # Nil
    /\ conf.Paths[1].TimeoutMS = conf0.Paths[1].TimeoutMS
    /\ conf0.Paths[1].PPS = Nil
    /\ conf0.Defaults.PPS # Nil
    /\ conf.Paths[1].PPS = conf0.Defaults.PPS
    /\ conf0.Paths[1].MeasurementLengthMS = Nil
    /\ conf0.Defaults.MeasurementLengthMS = Nil
    /\ conf.Paths[1].MeasurementLengthMS = dfltMeasurementLengthMS

====
